---------------------------- MODULE Spec2Model ----------------------------
(***************************************************************************)
(* Model of analysis.py: the per-month whole-market download               *)
(* (download_by_month), the assembly of the wide close-price matrix, the   *)
(* coverage gate, the 200-day new-high / new-low breadth computation, the  *)
(* ratio table, the report image and the Telegram caption.                 *)
(*                                                                         *)
(* The script runs top to bottom, single-threaded.  pc is the position in  *)
(* the script; every action is one step of it.                             *)
(***************************************************************************)
EXTENDS Integers, Sequences, FiniteSets

VARIABLES
  pc,              \* position in the script
  current_date,    \* datetime.now() as a proleptic Gregorian ordinal (date.toordinal())
  lookback_months, \* argument of download_by_month
  api_token,       \* os.environ.get('FINMIND_API_TOKEN') is truthy
  tg_creds,        \* TELEGRAM_TOKEN and TELEGRAM_CHAT_ID are both truthy
  logged_in,       \* dl.login_by_token was called in download_by_month
  month_list,      \* list of 'YYYY-MM' strings
  idx,             \* 1-based position of the for loop in month_list
  all_dfs,         \* list of the per-month frames that were appended
  requested,       \* the month strings for which taiwan_stock_daily was called, in order
  responses,       \* what the upstream answered to each of those calls, in order
  last_event,      \* "none" | "request" | "sleep": the last of request / time.sleep(1)
  df_close,        \* the wide matrix (step 2), forward-filled in step 3
  raw_close,       \* df_close as it was before the forward fill of line 146
  taiex_empty,     \* taiex_close.empty
  rolling_max,
  rolling_min,
  is_new_high,
  is_new_low,
  market_breadth,  \* one row per date: [New_Highs, New_Lows]
  table_df,        \* last 10 rows with Ratio
  image_saved,     \* plt.savefig(img_path) was executed
  caption          \* the caption posted to Telegram, or NoCaption

vars == <<pc, raw_close, current_date, lookback_months, api_token, tg_creds, logged_in,
          month_list, idx, all_dfs, requested, responses, last_event,
          df_close, taiex_empty, rolling_max, rolling_min, is_new_high,
          is_new_low, market_breadth, table_df, image_saved, caption>>

(***************************************************************************)
(* Program constants.                                                      *)
(***************************************************************************)
LookbackMonths == 14
MinCoverage == 100
window == 200
min_periods == 150
PlotRows == 120
TableRows == 10
RatioSentinel == 999
StepDays == 30

(***************************************************************************)
(* Bounds of the model.                                                    *)
(***************************************************************************)
\* lookback_months used when the whole pipeline is explored
PlanMonths == 2
\* first current date explored by the month-plan specification (2023-01-01)
FirstDay == 738521
\* number of consecutive current dates explored from FirstDay (covers a leap year)
DateSpan == 1500
\* number of instrument columns of the matrices fed to the breadth engine
NCols == 2
\* rows beyond one full window in the matrices fed to the breadth engine
ExtraRows == 5
\* largest New_Highs / New_Lows count fed to the ratio
MaxCount == 41

(***************************************************************************)
(* NaN: pandas' missing value.  Prices are positive, so a negative number  *)
(* is free to stand for it; every comparison goes through Ge / Le, which   *)
(* are false on NaN as IEEE comparisons are.                               *)
(***************************************************************************)
NaN == 0 - 1

Ge(a, b) == a # NaN /\ b # NaN /\ a >= b

Le(a, b) == a # NaN /\ b # NaN /\ a <= b

(***************************************************************************)
(* Calendar: datetime's ordinal <-> (year, month, day), as CPython's       *)
(* _ord2ymd and _ymd2ord compute them.                                     *)
(***************************************************************************)
IsLeap(y) == (y % 4 = 0) /\ ((y % 100 # 0) \/ (y % 400 = 0))

DaysInMonth(y, m) ==
  IF m = 2 THEN (IF IsLeap(y) THEN 29 ELSE 28)
  ELSE IF m \in {4, 6, 9, 11} THEN 30 ELSE 31

RECURSIVE DaysBeforeMonth(_, _)
DaysBeforeMonth(y, m) ==
  IF m = 1 THEN 0 ELSE DaysBeforeMonth(y, m - 1) + DaysInMonth(y, m - 1)

DaysBeforeYear(y) ==
  LET p == y - 1 IN p * 365 + (p \div 4) - (p \div 100) + (p \div 400)

Ymd2Ord(y, m, d) == DaysBeforeYear(y) + DaysBeforeMonth(y, m) + d

Ord2Ymd(ord) ==
  LET n0   == ord - 1
      n400 == n0 \div 146097
      r400 == n0 % 146097
      n100 == r400 \div 36524
      r100 == r400 % 36524
      n4   == r100 \div 1461
      r4   == r100 % 1461
      n1   == r4 \div 365
      n    == r4 % 365
      year == n400 * 400 + 1 + n100 * 100 + n4 * 4 + n1
  IN IF n1 = 4 \/ n100 = 4
       THEN <<year - 1, 12, 31>>
       ELSE LET est  == (n + 50) \div 32
                prec == DaysBeforeMonth(year, est)
                mon  == IF prec > n THEN est - 1 ELSE est
                pre  == IF prec > n THEN prec - DaysInMonth(year, est - 1) ELSE prec
            IN <<year, mon, n - pre + 1>>

(***************************************************************************)
(* Strings.  A 'YYYY-MM' string is the sequence of its six digits (the     *)
(* dash sits at a fixed place and is left out); sorted() orders such       *)
(* strings character by character.  A 'YYYY-MM-DD' date string is kept as  *)
(* the number YYYYMMDD, whose order is the order of the strings.           *)
(***************************************************************************)
\* d.strftime('%Y-%m')
StrfYm(ord) ==
  LET ymd == Ord2Ymd(ord)
      y == ymd[1]
      m == ymd[2]
  IN <<y \div 1000, (y \div 100) % 10, (y \div 10) % 10, y % 10, m \div 10, m % 10>>

\* year, month = map(int, month_str.split('-'))
ParseYear(s) == s[1] * 1000 + s[2] * 100 + s[3] * 10 + s[4]

ParseMonth(s) == s[5] * 10 + s[6]

\* string comparison s < t
RECURSIVE StrLtFrom(_, _, _)
StrLtFrom(s, t, k) ==
  IF k > Len(s) THEN FALSE
  ELSE IF s[k] # t[k] THEN s[k] < t[k]
  ELSE StrLtFrom(s, t, k + 1)

StrLt(s, t) == StrLtFrom(s, t, 1)

\* sorted(list(S)) for a set of strings
RECURSIVE SortedStrs(_)
SortedStrs(S) ==
  IF S = {} THEN <<>>
  ELSE LET lo == CHOOSE s \in S : \A t \in S \ {s} : StrLt(s, t)
       IN <<lo>> \o SortedStrs(S \ {lo})

\* f"{year}-{month:02d}-01"
StartDate(year, month) == year * 10000 + month * 100 + 1

\* the end_date of the request for a month: the first day of the next month
NextMonthDate(year, month) ==
  IF month = 12 THEN (year + 1) * 10000 + 100 + 1
  ELSE year * 10000 + (month + 1) * 100 + 1

(***************************************************************************)
(* download_by_month: the month plan.                                      *)
(***************************************************************************)
\* the list appended to by 'for i in range(lookback_months)'
RawMonths(now, n) == [k \in 1..n |-> StrfYm(now - StepDays * (k - 1))]

\* month_list = sorted(list(set(month_list)))
MonthList(now, n) ==
  LET raw == RawMonths(now, n)
  IN SortedStrs({raw[k] : k \in 1..n})


(***************************************************************************)
(* Frames.  A long-form frame (columns date, stock_id, close) is the bag   *)
(* of its rows: a function from row to the number of times it occurs.      *)
(* Row order is dropped: pivot sorts its index and columns, and nothing    *)
(* else reads the order.  A wide frame is [index, columns, val]: the       *)
(* ascending list of dates, the set of stock ids, and val[t][c].           *)
(***************************************************************************)
Row(d, s, c) == [date |-> d, stock_id |-> s, close |-> c]

EmptyWide == [index |-> <<>>, columns |-> {}, val |-> <<>>]

\* the stock list of step 1 (上市 股票), and a stock that is not in it
target_stocks == 1..MinCoverage

NonTarget == 0

\* df[df['stock_id'].isin(target_stocks)][['date', 'stock_id', 'close']]
FilterTarget(rows, targets) == {r \in rows : r.stock_id \in targets}

\* pd.concat(all_dfs)
Concat(dfs) ==
  LET all == UNION {dfs[k] : k \in DOMAIN dfs}
  IN [r \in all |-> Cardinality({k \in DOMAIN dfs : r \in dfs[k]})]

\* variant of drop_duplicates that keeps every row as it is
KeepDuplicates(bag) == bag

\* big_df.drop_duplicates()
DropDuplicates(bag) == [r \in DOMAIN bag |-> 1]

Keys(bag) == {<<r.date, r.stock_id>> : r \in DOMAIN bag}

\* pivot raises ValueError ("Index contains duplicate entries") when two rows
\* share (date, stock_id)
PivotRaises(bag) ==
  \/ \E r \in DOMAIN bag : bag[r] > 1
  \/ Cardinality(Keys(bag)) < Cardinality(DOMAIN bag)

\* sorted list of a set of numbers
RECURSIVE SortedNums(_)
SortedNums(S) ==
  IF S = {} THEN <<>>
  ELSE LET lo == CHOOSE x \in S : \A y \in S : x <= y
       IN <<lo>> \o SortedNums(S \ {lo})

\* the close values a frame holds
CloseValues(bag) == {r.close : r \in DOMAIN bag}

\* big_df.pivot(index='date', columns='stock_id', values='close'), when it
\* does not raise; a (date, stock_id) with no row is NaN
Pivot(bag) ==
  LET rows  == DOMAIN bag
      dates == SortedNums({r.date : r \in rows})
      cols  == {r.stock_id : r \in rows}
      cvals == CloseValues(bag)
      Cell(d, s) ==
        LET cs == {c \in cvals : Row(d, s, c) \in rows}
        IN IF cs = {} THEN NaN ELSE CHOOSE c \in cs : TRUE
  IN [index   |-> dates,
      columns |-> cols,
      val     |-> [t \in 1..Len(dates) |-> [s \in cols |-> Cell(dates[t], s)]]]

\* the tail of download_by_month: concat, drop_duplicates, pivot
Assembled(dfs) == Pivot(DropDuplicates(Concat(dfs)))

AssemblyRaises(dfs) == PivotRaises(DropDuplicates(Concat(dfs)))

\* df_close.dropna(axis=1, how='all')
DropEmptyColumns(w) ==
  LET keep == {c \in w.columns : \E t \in 1..Len(w.index) : w.val[t][c] # NaN}
  IN [index   |-> w.index,
      columns |-> keep,
      val     |-> [t \in 1..Len(w.index) |-> [c \in keep |-> w.val[t][c]]]]

\* variant of the gate that is off by one
CoverageInsufficientOffByOne(ncols) == ncols < MinCoverage - 1

\* if df_close.shape[1] < 100
CoverageInsufficient(ncols) == ncols < MinCoverage

(***************************************************************************)
(* The upstream (dl.taiwan_stock_daily with start_date / end_date): what   *)
(* one whole-market request for a month can answer.  The window of a month *)
(* runs from its first day to the first day of the next month, both        *)
(* included, so consecutive months overlap on one date.                    *)
(***************************************************************************)
\* every listed stock but the last, and one stock outside the list, on the first day
PayloadA(d0, d1) == {Row(d0, s, 1) : s \in (target_stocks \ {MinCoverage}) \cup {NonTarget}}

\* every listed stock on the last day of the window
PayloadB(d0, d1) == {Row(d1, s, 1) : s \in target_stocks}

\* every listed stock on the first day, the last one at another close
PayloadC(d0, d1) == {Row(d0, s, IF s = MinCoverage THEN 2 ELSE 1) : s \in target_stocks}

\* every listed stock on the first day, the last one with a missing close
PayloadD(d0, d1) == {Row(d0, s, IF s = MinCoverage THEN NaN ELSE 1) : s \in target_stocks}

Responses(month_str) ==
  LET year  == ParseYear(month_str)
      month == ParseMonth(month_str)
      d0    == StartDate(year, month)
      d1    == NextMonthDate(year, month)
  IN {[kind |-> "exception", rows |-> {}],
      [kind |-> "empty",     rows |-> {}],
      [kind |-> "malformed", rows |-> {}]}
     \cup {[kind |-> "ok", rows |-> p] :
             p \in {PayloadA(d0, d1), PayloadB(d0, d1), PayloadC(d0, d1), PayloadD(d0, d1)}}

\* the upstream of the month-plan specification answers every request with an empty table
EmptyResponses(month_str) == {[kind |-> "empty", rows |-> {}]}

(***************************************************************************)
(* download_by_month: token check, plan, request loop.                     *)
(***************************************************************************)
\* lines 43-48
TokenCheck ==
  /\ pc = "token"
  /\ logged_in' = api_token
  /\ pc' = "plan"
  /\ UNCHANGED <<raw_close, current_date, lookback_months, api_token, tg_creds, month_list,
                 idx, all_dfs, requested, responses, last_event, df_close,
                 taiex_empty, rolling_max, rolling_min, is_new_high, is_new_low,
                 market_breadth, table_df, image_saved, caption>>

\* lines 50-62
BuildMonthList ==
  /\ pc = "plan"
  /\ month_list' = MonthList(current_date, lookback_months)
  /\ all_dfs' = <<>>
  /\ idx' = 1
  /\ pc' = "loop"
  /\ UNCHANGED <<raw_close, current_date, lookback_months, api_token, tg_creds, logged_in,
                 requested, responses, last_event, df_close, taiex_empty,
                 rolling_max, rolling_min, is_new_high, is_new_low,
                 market_breadth, table_df, image_saved, caption>>

\* variant of the except branch that leaves the loop on the first failure
AbortOnFailure(i, n) == n + 1

\* except Exception (lines 88-89): the message is printed and the for loop
\* goes on with the next month
AfterFailure(i, n) == i + 1

\* the response raises inside the try block: the request itself raised, or the
\* frame lacks stock_id / close and line 79 or 80 raises KeyError
Raises(resp) == resp.kind \in {"exception", "malformed"}

\* one iteration of the for loop up to time.sleep (lines 64-84, 88-89)
FetchMonth(resp) ==
  /\ pc = "loop"
  /\ idx <= Len(month_list)
  /\ requested' = Append(requested, month_list[idx])
  /\ responses' = Append(responses, resp)
  /\ last_event' = "request"
  /\ IF Raises(resp)
       THEN /\ idx' = AfterFailure(idx, Len(month_list))
            /\ pc' = "loop"
            /\ UNCHANGED all_dfs
       ELSE /\ all_dfs' = IF resp.kind = "ok"
                            THEN Append(all_dfs, FilterTarget(resp.rows, target_stocks))
                            ELSE all_dfs
            /\ pc' = "sleep"
            /\ UNCHANGED idx
  /\ UNCHANGED <<raw_close, current_date, lookback_months, api_token, tg_creds, logged_in,
                 month_list, df_close, taiex_empty, rolling_max, rolling_min,
                 is_new_high, is_new_low, market_breadth, table_df, image_saved,
                 caption>>

\* time.sleep(1) (line 86), then the next iteration
Sleep ==
  /\ pc = "sleep"
  /\ last_event' = "sleep"
  /\ idx' = idx + 1
  /\ pc' = "loop"
  /\ UNCHANGED <<raw_close, current_date, lookback_months, api_token, tg_creds, logged_in,
                 month_list, all_dfs, requested, responses, df_close, taiex_empty,
                 rolling_max, rolling_min, is_new_high, is_new_low,
                 market_breadth, table_df, image_saved, caption>>

\* lines 91-102, and line 138 when pivot raises
Assemble ==
  /\ pc = "loop"
  /\ idx > Len(month_list)
  /\ IF all_dfs = <<>>
       THEN df_close' = EmptyWide /\ pc' = "gate"
       ELSE IF AssemblyRaises(all_dfs)
              THEN df_close' = EmptyWide /\ pc' = "exit_error"
              ELSE df_close' = Assembled(all_dfs) /\ pc' = "gate"
  /\ UNCHANGED <<raw_close, current_date, lookback_months, api_token, tg_creds, logged_in,
                 month_list, idx, all_dfs, requested, responses, last_event,
                 taiex_empty, rolling_max, rolling_min, is_new_high, is_new_low,
                 market_breadth, table_df, image_saved, caption>>

\* lines 110-117
CoverageGate ==
  /\ pc = "gate"
  /\ df_close' = DropEmptyColumns(df_close)
  /\ pc' = IF CoverageInsufficient(Cardinality(df_close'.columns))
             THEN "exit_gate" ELSE "benchmark"
  /\ UNCHANGED <<raw_close, current_date, lookback_months, api_token, tg_creds, logged_in,
                 month_list, idx, all_dfs, requested, responses, last_event,
                 taiex_empty, rolling_max, rolling_min, is_new_high, is_new_low,
                 market_breadth, table_df, image_saved, caption>>

\* lines 119-136: the benchmark series, empty when the request fails or is empty
DownloadBenchmark(empty) ==
  /\ pc = "benchmark"
  /\ taiex_empty' = empty
  /\ pc' = "ffill"
  /\ UNCHANGED <<raw_close, current_date, lookback_months, api_token, tg_creds, logged_in,
                 month_list, idx, all_dfs, requested, responses, last_event,
                 df_close, rolling_max, rolling_min, is_new_high, is_new_low,
                 market_breadth, table_df, image_saved, caption>>


(***************************************************************************)
(* Step 3: forward fill, rolling extrema, new highs and new lows.          *)
(***************************************************************************)
\* the last observed value of column c at or before row t, NaN when there is none
LastObserved(val, c, t) ==
  LET seen == {r \in 1..t : val[r][c] # NaN}
  IN IF seen = {} THEN NaN
     ELSE LET last == CHOOSE r \in seen : \A q \in (r + 1)..t : val[q][c] = NaN
          IN val[last][c]

\* df_close.ffill()
FfillWide(w) ==
  [index   |-> w.index,
   columns |-> w.columns,
   val     |-> [t \in 1..Len(w.index) |-> [c \in w.columns |-> LastObserved(w.val, c, t)]]]

\* the rows of the trailing window that ends at row t
WindowRows(t, size) == (IF t > size THEN t - size + 1 ELSE 1)..t

\* the non-missing values of column c in the window that ends at row t
WindowValues(w, c, t, size) == {w.val[r][c] : r \in WindowRows(t, size)} \ {NaN}

\* the number of non-missing values of column c in the window that ends at row t
WindowCount(w, c, t, size) == Cardinality({r \in WindowRows(t, size) : w.val[r][c] # NaN})

SetMax(S) == CHOOSE x \in S : \A y \in S : y <= x

SetMin(S) == CHOOSE x \in S : \A y \in S : x <= y

\* df_close.rolling(window=size, min_periods=minp).max()
RollingMax(w, size, minp) ==
  [t \in 1..Len(w.index) |->
     [c \in w.columns |->
        IF WindowCount(w, c, t, size) < minp THEN NaN
        ELSE SetMax(WindowValues(w, c, t, size))]]

\* df_close.rolling(window=size, min_periods=minp).min()
RollingMin(w, size, minp) ==
  [t \in 1..Len(w.index) |->
     [c \in w.columns |->
        IF WindowCount(w, c, t, size) < minp THEN NaN
        ELSE SetMin(WindowValues(w, c, t, size))]]

\* variant of the comparison in which a tie with the rolling maximum does not count
IsNewHighStrict(w, rmax) ==
  [t \in 1..Len(w.index) |->
     [c \in w.columns |-> Ge(w.val[t][c], rmax[t][c]) /\ w.val[t][c] # rmax[t][c]]]

\* df_close >= rolling_max
IsNewHigh(w, rmax) ==
  [t \in 1..Len(w.index) |-> [c \in w.columns |-> Ge(w.val[t][c], rmax[t][c])]]

\* variant of the comparison in which a tie with the rolling minimum does not count
IsNewLowStrict(w, rmin) ==
  [t \in 1..Len(w.index) |->
     [c \in w.columns |-> Le(w.val[t][c], rmin[t][c]) /\ w.val[t][c] # rmin[t][c]]]

\* df_close <= rolling_min
IsNewLow(w, rmin) ==
  [t \in 1..Len(w.index) |-> [c \in w.columns |-> Le(w.val[t][c], rmin[t][c])]]

\* flags.sum(axis=1) for one row
RowSum(flags, cols) == Cardinality({c \in cols : flags[c]})

\* market_breadth: New_Highs, New_Lows and the benchmark joined on the date index
MarketBreadth(w, high, low, no_taiex) ==
  [t \in 1..Len(w.index) |->
     [date      |-> w.index[t],
      New_Highs |-> RowSum(high[t], w.columns),
      New_Lows  |-> RowSum(low[t], w.columns),
      TAIEX     |-> IF no_taiex THEN "None" ELSE "reindexed"]]

\* market_breadth.dropna(subset=['New_Highs', 'New_Lows'])
DropNaRows(mb) ==
  LET Keep(row) == row.New_Highs # NaN /\ row.New_Lows # NaN
  IN SelectSeq(mb, Keep)

\* frame.iloc[-k:]
ILocTail(rows, k) ==
  IF Len(rows) <= k THEN rows ELSE SubSeq(rows, Len(rows) - k + 1, Len(rows))

\* line 146
Ffill ==
  /\ pc = "ffill"
  /\ df_close' = FfillWide(df_close)
  /\ raw_close' = df_close
  /\ pc' = "rolling"
  /\ UNCHANGED <<current_date, lookback_months, api_token, tg_creds, logged_in,
                 month_list, idx, all_dfs, requested, responses, last_event,
                 taiex_empty, rolling_max, rolling_min, is_new_high, is_new_low,
                 market_breadth, table_df, image_saved, caption>>

\* lines 148-149
Rolling ==
  /\ pc = "rolling"
  /\ rolling_max' = RollingMax(df_close, window, min_periods)
  /\ rolling_min' = RollingMin(df_close, window, min_periods)
  /\ pc' = "compare"
  /\ UNCHANGED <<raw_close, current_date, lookback_months, api_token, tg_creds, logged_in,
                 month_list, idx, all_dfs, requested, responses, last_event,
                 df_close, taiex_empty, is_new_high, is_new_low,
                 market_breadth, table_df, image_saved, caption>>

\* lines 151-152
Compare ==
  /\ pc = "compare"
  /\ is_new_high' = IsNewHigh(df_close, rolling_max)
  /\ is_new_low' = IsNewLow(df_close, rolling_min)
  /\ pc' = "breadth"
  /\ UNCHANGED <<raw_close, current_date, lookback_months, api_token, tg_creds, logged_in,
                 month_list, idx, all_dfs, requested, responses, last_event,
                 df_close, taiex_empty, rolling_max, rolling_min,
                 market_breadth, table_df, image_saved, caption>>

\* lines 154-167: the breadth rows, plot_df and the exit when plot_df is empty
Breadth ==
  /\ pc = "breadth"
  /\ market_breadth' = MarketBreadth(df_close, is_new_high, is_new_low, taiex_empty)
  /\ pc' = IF ILocTail(DropNaRows(market_breadth'), PlotRows) = <<>>
             THEN "exit_empty" ELSE "table"
  /\ UNCHANGED <<raw_close, current_date, lookback_months, api_token, tg_creds, logged_in,
                 month_list, idx, all_dfs, requested, responses, last_event,
                 df_close, taiex_empty, rolling_max, rolling_min, is_new_high,
                 is_new_low, table_df, image_saved, caption>>


(***************************************************************************)
(* The ratio (lines 171-173).                                              *)
(*   round((row['New_Highs'] / row['New_Lows']) * 100)                     *)
(* is computed in IEEE-754 binary64: the quotient is rounded to 53 bits,   *)
(* the product with 100 is rounded to 53 bits, and round() takes the       *)
(* nearest integer of that double, halves to even.  A positive double is   *)
(* [a, b, c, exp]: its 53-bit significand in three limbs of 17, 18 and 18  *)
(* bits (a holds the leading 1), and the weight 2^exp of its leading bit;  *)
(* its value is (a * 2^36 + b * 2^18 + c) * 2^(exp - 52).                  *)
(***************************************************************************)
RECURSIVE Pow2(_)
Pow2(n) == IF n = 0 THEN 1 ELSE 2 * Pow2(n - 1)

LimbBits == 18

LimbBase == Pow2(LimbBits)

\* the leading 1 of the 17-bit top limb
TopBase == Pow2(LimbBits - 2)

\* the top bit of an 18-bit limb
HalfLimb == Pow2(LimbBits - 1)

\* the k with 2^k <= h / l < 2^(k+1), for h, l > 0
RECURSIVE ExpUp(_, _, _)
ExpUp(h, l, k) == IF h < 2 * l * Pow2(k) THEN k ELSE ExpUp(h, l, k + 1)

RECURSIVE ExpDown(_, _, _)
ExpDown(h, l, k) == IF h * Pow2(k) >= l THEN 0 - k ELSE ExpDown(h, l, k + 1)

Exponent(h, l) == IF h >= l THEN ExpUp(h, l, 0) ELSE ExpDown(h, l, 1)

\* round to nearest, ties to even: x is the significand cut to 53 bits,
\* guard the first bit cut off, sticky tells that a later one is set
RoundNearestEven(x, guard, sticky) ==
  IF ~(guard = 1 /\ (sticky \/ x.c % 2 = 1)) THEN x
  ELSE IF x.c + 1 < LimbBase THEN [x EXCEPT !.c = x.c + 1]
  ELSE IF x.b + 1 < LimbBase THEN [x EXCEPT !.c = 0, !.b = x.b + 1]
  ELSE IF x.a + 1 < 2 * TopBase THEN [x EXCEPT !.c = 0, !.b = 0, !.a = x.a + 1]
  ELSE [a |-> TopBase, b |-> 0, c |-> 0, exp |-> x.exp + 1]

\* the double h / l, for integers h, l > 0
FloatDiv(h, l) ==
  LET k   == Exponent(h, l)
      num == IF k >= 0 THEN h ELSE h * Pow2(0 - k)
      den == IF k >= 0 THEN l * Pow2(k) ELSE l
      na  == num * TopBase
      nb  == (na % den) * LimbBase
      nc  == (nb % den) * LimbBase
      ng  == (nc % den) * 2
  IN RoundNearestEven([a |-> na \div den, b |-> nb \div den, c |-> nc \div den, exp |-> k],
                      ng \div den, ng % den # 0)

\* the double x * 100, for a double x > 0
FloatTimes100(x) ==
  LET low  == 100 * x.c
      mid  == 100 * x.b + (low \div LimbBase)
      top  == 100 * x.a + (mid \div LimbBase)
      c2   == low % LimbBase
      b2   == mid % LimbBase
      \* the product has 59 or 60 bits: 6 or 7 are cut off
      s    == IF top < 64 * 2 * TopBase THEN 6 ELSE 7
      D    == Pow2(s)
      U    == LimbBase \div D
      cut  == c2 % D
  IN RoundNearestEven([a   |-> top \div D,
                       b   |-> (top % D) * U + (b2 \div D),
                       c   |-> (b2 % D) * U + (c2 \div D),
                       exp |-> x.exp + s],
                      cut \div (D \div 2), cut % (D \div 2) # 0)

\* round(x) for a double x > 0: the nearest integer, halves to even
FloatRound(x) ==
  LET f == 52 - x.exp   \* the number of fraction bits of the significand
      parts ==
        IF f > 53 THEN [int |-> 0, half |-> 0, below |-> TRUE]
        ELSE IF f = 53
          THEN [int |-> 0, half |-> 1, below |-> x.a # TopBase \/ x.b # 0 \/ x.c # 0]
        ELSE IF f > 2 * LimbBits
          THEN LET fa == x.a % Pow2(f - 2 * LimbBits)
                   h2 == Pow2(f - 2 * LimbBits - 1)
               IN [int   |-> x.a \div Pow2(f - 2 * LimbBits),
                   half  |-> fa \div h2,
                   below |-> fa % h2 # 0 \/ x.b # 0 \/ x.c # 0]
        ELSE IF f = 2 * LimbBits
          THEN [int |-> x.a, half |-> x.b \div HalfLimb,
                below |-> x.b % HalfLimb # 0 \/ x.c # 0]
        ELSE IF f > LimbBits
          THEN LET fb == x.b % Pow2(f - LimbBits)
                   h2 == Pow2(f - LimbBits - 1)
               IN [int   |-> x.a * Pow2(2 * LimbBits - f) + (x.b \div Pow2(f - LimbBits)),
                   half  |-> fb \div h2,
                   below |-> fb % h2 # 0 \/ x.c # 0]
        ELSE [int |-> x.a * LimbBase + x.b, half |-> x.c \div HalfLimb,
              below |-> x.c % HalfLimb # 0]
  IN IF parts.half = 0 THEN parts.int
     ELSE IF parts.below THEN parts.int + 1
     ELSE IF parts.int % 2 = 0 THEN parts.int ELSE parts.int + 1

Reverse(seq) == [k \in 1..Len(seq) |-> seq[Len(seq) + 1 - k]]

\* variant of the ratio without the guard on New_Lows
RatioUnguarded(highs, lows) ==
  IF lows > 0 THEN (IF highs = 0 THEN 0 ELSE FloatRound(FloatTimes100(FloatDiv(highs, lows))))
  ELSE IF highs = 0 THEN NaN ELSE 2147483647

\* round((highs / lows) * 100) if lows > 0 else 999
Ratio(highs, lows) ==
  IF lows > 0
    THEN IF highs = 0 THEN 0 ELSE FloatRound(FloatTimes100(FloatDiv(highs, lows)))
    ELSE RatioSentinel

\* table_df: the last 10 breadth rows with their Ratio
TableDf(mb) ==
  LET rows == ILocTail(DropNaRows(mb), TableRows)
  IN [k \in 1..Len(rows) |->
        [date      |-> rows[k].date,
         New_Highs |-> rows[k].New_Highs,
         New_Lows  |-> rows[k].New_Lows,
         Ratio     |-> Ratio(rows[k].New_Highs, rows[k].New_Lows)]]

\* table_display: table_df.sort_index(ascending=False); the index ascends in table_df
TableDisplay(tdf) == Reverse(tdf)

NoCaption == [sent |-> FALSE, highs |-> 0, lows |-> 0, ratio |-> 0, samples |-> 0,
              status |-> "none"]

\* lines 240-248: the status line is the literal '已通過 FinMind 驗證下載'
\* (downloaded with FinMind authentication), whatever the token
Caption(tdf, w, token) ==
  LET today == TableDisplay(tdf)[1]
  IN [sent |-> TRUE, highs |-> today.New_Highs, lows |-> today.New_Lows,
      ratio |-> today.Ratio, samples |-> Cardinality(w.columns),
      status |-> "authenticated"]

\* lines 170-176
MakeTable ==
  /\ pc = "table"
  /\ table_df' = TableDf(market_breadth)
  /\ pc' = "plot"
  /\ UNCHANGED <<raw_close, current_date, lookback_months, api_token, tg_creds, logged_in,
                 month_list, idx, all_dfs, requested, responses, last_event,
                 df_close, taiex_empty, rolling_max, rolling_min, is_new_high,
                 is_new_low, market_breadth, image_saved, caption>>

\* lines 181-229
SaveFig ==
  /\ pc = "plot"
  /\ image_saved' = TRUE
  /\ pc' = "notify"
  /\ UNCHANGED <<raw_close, current_date, lookback_months, api_token, tg_creds, logged_in,
                 month_list, idx, all_dfs, requested, responses, last_event,
                 df_close, taiex_empty, rolling_max, rolling_min, is_new_high,
                 is_new_low, market_breadth, table_df, caption>>

\* lines 234-263
Notify ==
  /\ pc = "notify"
  /\ caption' = IF tg_creds THEN Caption(table_df, df_close, api_token) ELSE NoCaption
  /\ pc' = "done"
  /\ UNCHANGED <<raw_close, current_date, lookback_months, api_token, tg_creds, logged_in,
                 month_list, idx, all_dfs, requested, responses, last_event,
                 df_close, taiex_empty, rolling_max, rolling_min, is_new_high,
                 is_new_low, market_breadth, table_df, image_saved>>


(***************************************************************************)
(* The whole script.                                                       *)
(***************************************************************************)
\* the current dates explored: a month end, a date whose lookback crosses a
\* year end, and a date whose 30-day step stays in the same month
PipelineDates == {Ymd2Ord(2026, 10, 30), Ymd2Ord(2026, 1, 15), Ymd2Ord(2026, 5, 31)}

InitCommon ==
  /\ logged_in = FALSE
  /\ raw_close = EmptyWide
  /\ month_list = <<>>
  /\ idx = 0
  /\ all_dfs = <<>>
  /\ requested = <<>>
  /\ responses = <<>>
  /\ last_event = "none"
  /\ taiex_empty = TRUE
  /\ rolling_max = <<>>
  /\ rolling_min = <<>>
  /\ is_new_high = <<>>
  /\ is_new_low = <<>>
  /\ table_df = <<>>
  /\ image_saved = FALSE
  /\ caption = NoCaption

Init ==
  /\ pc = "token"
  /\ current_date \in PipelineDates
  /\ lookback_months = PlanMonths
  /\ api_token \in BOOLEAN
  /\ tg_creds \in BOOLEAN
  /\ df_close = EmptyWide
  /\ market_breadth = <<>>
  /\ InitCommon

FetchStep ==
  /\ pc = "loop"
  /\ idx <= Len(month_list)
  /\ \E resp \in Responses(month_list[idx]) : FetchMonth(resp)

BenchmarkStep == \E empty \in BOOLEAN : DownloadBenchmark(empty)

Next ==
  \/ TokenCheck
  \/ BuildMonthList
  \/ FetchStep
  \/ Sleep
  \/ Assemble
  \/ CoverageGate
  \/ BenchmarkStep
  \/ Ffill
  \/ Rolling
  \/ Compare
  \/ Breadth
  \/ MakeTable
  \/ SaveFig
  \/ Notify

Spec == Init /\ [][Next]_vars

(***************************************************************************)
(* The month plan of download_by_month(stock_list_tse, lookback_months=14) *)
(* for every current date of a range, against an upstream that answers     *)
(* every request with an empty table.                                      *)
(***************************************************************************)
InitMonths ==
  /\ pc = "token"
  /\ current_date \in FirstDay..(FirstDay + DateSpan - 1)
  /\ lookback_months = LookbackMonths
  /\ api_token = TRUE
  /\ tg_creds = FALSE
  /\ df_close = EmptyWide
  /\ market_breadth = <<>>
  /\ InitCommon

FetchEmptyStep ==
  /\ pc = "loop"
  /\ idx <= Len(month_list)
  /\ \E resp \in EmptyResponses(month_list[idx]) : FetchMonth(resp)

NextMonths ==
  \/ TokenCheck
  \/ BuildMonthList
  \/ FetchEmptyStep
  \/ Sleep

SpecMonths == InitMonths /\ [][NextMonths]_vars

(***************************************************************************)
(* Step 3 as a function of the wide matrix: the matrices fed to it.  A     *)
(* column is observed from row 'first' to row 'last', except on every      *)
(* 'gap'-th row, and takes the closes of its 'shape'.                      *)
(***************************************************************************)
ShapeValue(shape, r) ==
  CASE shape = "flat" -> 5
    [] shape = "up"   -> 1 + (r \div 50)
    [] shape = "down" -> 9 - (r \div 50)
    [] shape = "wave" -> 1 + (r % 3)

Generators(n) ==
  << [first |-> 1,   last |-> n, shape |-> "up",   gap |-> 0],
     [first |-> 1,   last |-> n, shape |-> "flat", gap |-> 0],
     [first |-> 40,  last |-> n, shape |-> "down", gap |-> 3],
     [first |-> 1,   last |-> 5, shape |-> "wave", gap |-> 0],
     [first |-> 100, last |-> n, shape |-> "up",   gap |-> 0],
     [first |-> 3,   last |-> 3, shape |-> "flat", gap |-> 0] >>

GenCell(g, r) ==
  IF r >= g.first /\ r <= g.last /\ (g.gap = 0 \/ r % g.gap # 0)
    THEN ShapeValue(g.shape, r)
    ELSE NaN

\* column c takes generator number pick[c]
GenMatrix(n, pick) ==
  LET G == Generators(n)
  IN [index   |-> [t \in 1..n |-> t],
      columns |-> 1..NCols,
      val     |-> [t \in 1..n |-> [c \in 1..NCols |-> GenCell(G[pick[c]], t)]]]

EngineLengths == {min_periods - 1, min_periods, window + ExtraRows}

InitEngine ==
  /\ pc = "ffill"
  /\ current_date = 0
  /\ lookback_months = 0
  /\ api_token = FALSE
  /\ tg_creds = FALSE
  /\ \E n \in EngineLengths : \E pick \in [1..NCols -> 1..Len(Generators(n))] :
       df_close = GenMatrix(n, pick)
  /\ market_breadth = <<>>
  /\ InitCommon

NextEngine ==
  \/ Ffill
  \/ Rolling
  \/ Compare
  \/ Breadth
  \/ MakeTable

SpecEngine == InitEngine /\ [][NextEngine]_vars

(***************************************************************************)
(* The ratio table as a function of the breadth rows: eleven rows whose    *)
(* counts run over 0..MaxCount.                                            *)
(***************************************************************************)
InitRatio ==
  /\ pc = "table"
  /\ current_date = 0
  /\ lookback_months = 0
  /\ api_token = FALSE
  /\ tg_creds = FALSE
  /\ df_close = EmptyWide
  /\ \E h \in 0..MaxCount : \E l \in 0..MaxCount :
       market_breadth =
         [k \in 1..(TableRows + 1) |->
            [date      |-> k,
             New_Highs |-> (h + k - 1) % (MaxCount + 1),
             New_Lows  |-> (l + 3 * (k - 1)) % (MaxCount + 1),
             TAIEX     |-> "None"]]
  /\ InitCommon

NextRatio == MakeTable

SpecRatio == InitRatio /\ [][NextRatio]_vars


(***************************************************************************)
(* Properties of the download (Spec).                                      *)
(***************************************************************************)
InDownload == pc \in {"token", "plan", "loop", "sleep"}

\* the rows the assembler is given
AccumulatedRows == UNION {all_dfs[k] : k \in DOMAIN all_dfs}

\* C1: a failing month (exception, empty table, payload without the columns)
\* is skipped and never ends the loop: the months are requested in plan
\* order whatever the earlier answers were, every month of the plan has
\* been requested when the loop is left, and the rows (of the listed
\* stocks) of every month that succeeded are in the accumulated set that is
\* assembled.
C1_FailedMonthSkipped ==
  /\ Len(requested) <= Len(month_list)
  /\ Len(responses) = Len(requested)
  /\ \A k \in 1..Len(requested) : requested[k] = month_list[k]
  /\ pc = "loop" => idx = Len(requested) + 1
  /\ ~InDownload => requested = month_list
  /\ ~InDownload =>
       \A k \in 1..Len(responses) :
         responses[k].kind = "ok" =>
           FilterTarget(responses[k].rows, target_stocks) \subseteq AccumulatedRows

\* C1 witness: every kind of failure is followed by a month that succeeds
C1_Witness ==
  /\ pc = "gate"
  /\ Len(responses) = 2
  /\ responses[1].kind = "malformed"
  /\ responses[2].kind = "ok"
  /\ AccumulatedRows # {}

\* the stock ids for which the accumulated rows hold at least one close
ColumnsWithData == {r.stock_id : r \in {x \in AccumulatedRows : x.close # NaN}}

NoOutput == market_breadth = <<>> /\ ~image_saved /\ ~caption.sent

\* C2: when the assembled matrix has fewer than 100 columns that hold data
\* (also when every month failed), the run ends at the gate: no breadth rows,
\* no image, no notification.
C2_CoverageGate ==
  (/\ ~InDownload
   /\ pc # "gate"
   /\ pc # "exit_error"
   /\ Cardinality(ColumnsWithData) < MinCoverage)
  => (pc = "exit_gate" /\ NoOutput)

\* C2 witness: the run ended at the gate with 99 columns left of the 100 assembled
C2_Witness ==
  /\ pc = "exit_gate"
  /\ Cardinality(df_close.columns) = MinCoverage - 1
  /\ Cardinality(Assembled(all_dfs).columns) = MinCoverage
  /\ NoOutput

\* some instrument has a defined rolling window on row t of the filled matrix
WindowDefinedAt(w, t) ==
  \E c \in w.columns :
    Cardinality({r \in WindowRows(t, window) : w.val[r][c] # NaN}) >= min_periods

\* C3 (as claimed): when no date has a defined rolling window for any
\* instrument, the run ends before the image is saved and before any
\* notification; breadth rows exist only for dates with a defined window.
C3_EmptyDerivedSeriesTerminal ==
  /\ (image_saved \/ caption.sent) =>
       \E t \in 1..Len(df_close.index) : WindowDefinedAt(df_close, t)
  /\ image_saved =>
       \A k \in 1..Len(table_df) :
         \E t \in 1..Len(df_close.index) :
           df_close.index[t] = table_df[k].date /\ WindowDefinedAt(df_close, t)

\* C4 (as claimed): a request is never issued right after another request:
\* when the loop is about to issue a request and one was issued before,
\* time.sleep ran in between.
C4_Pacing ==
  (pc = "loop" /\ idx <= Len(month_list) /\ requested # <<>>) => last_event = "sleep"

\* C6 (as claimed): a caption sent by a run without FINMIND_API_TOKEN does not
\* state that the download was authenticated.
C6_AuthMissingReported ==
  (caption.sent /\ ~api_token) => caption.status # "authenticated"

\* the same observation was returned by two requests
HasSharedObservation ==
  \E j \in DOMAIN all_dfs : \E k \in DOMAIN all_dfs :
    j < k /\ all_dfs[j] \cap all_dfs[k] # {}

SharedObservations ==
  UNION {UNION {all_dfs[j] \cap all_dfs[k] : k \in DOMAIN all_dfs \ {j}} : j \in DOMAIN all_dfs}

\* no (date, stock) was returned with two different closes
NoConflictingCloses ==
  \A r1 \in AccumulatedRows : \A r2 \in AccumulatedRows :
    (r1.date = r2.date /\ r1.stock_id = r2.stock_id) => r1.close = r2.close

\* the matrix holds exactly one row for the date of o and o's close in its cell
HoldsOnce(w, o) ==
  /\ Cardinality({t \in 1..Len(w.index) : w.index[t] = o.date}) = 1
  /\ \A t \in 1..Len(w.index) : w.index[t] = o.date => w.val[t][o.stock_id] = o.close

\* C7 (as claimed): whenever an observation is returned by two overlapping
\* requests, assembly succeeds and the matrix holds it exactly once.
C7_DuplicateToleranceAnyResults ==
  (~InDownload /\ HasSharedObservation) =>
    /\ pc # "exit_error"
    /\ pc = "gate" => \A o \in SharedObservations : HoldsOnce(df_close, o)

\* C7 (amended): when an observation is returned by two overlapping requests
\* and no (date, instrument) is returned with two different closes, assembly
\* succeeds, the matrix holds exactly one row for that date and that close in
\* its cell, and assembling the accumulated frames twice over gives the same
\* matrix.
C7_DuplicateTolerance ==
  (~InDownload /\ HasSharedObservation /\ NoConflictingCloses) =>
    /\ pc # "exit_error"
    /\ pc = "gate" =>
         /\ \A o \in SharedObservations : HoldsOnce(df_close, o)
         /\ ~AssemblyRaises(all_dfs \o all_dfs)
         /\ Assembled(all_dfs \o all_dfs) = df_close

\* C7 witness: a matrix assembled from two months that share observations
C7_Witness ==
  /\ pc = "gate"
  /\ HasSharedObservation
  /\ NoConflictingCloses
  /\ \E o \in SharedObservations : HoldsOnce(df_close, o)

(***************************************************************************)
(* Properties of the month plan (SpecMonths).                              *)
(***************************************************************************)
\* the 'YYYY-MM' string of the month after s
MonthAfter(s) ==
  LET y == ParseYear(s)
      m == ParseMonth(s)
      y2 == IF m = 12 THEN y + 1 ELSE y
      m2 == IF m = 12 THEN 1 ELSE m + 1
  IN <<y2 \div 1000, (y2 \div 100) % 10, (y2 \div 10) % 10, y2 % 10, m2 \div 10, m2 % 10>>

\* C5 (as claimed): the month list is the complete run of consecutive
\* calendar months from its oldest month through the current month, in
\* ascending order, none repeated and none skipped, and one request is
\* issued per listed month.
C5_MonthPlan ==
  /\ pc \in {"loop", "sleep"} =>
       /\ month_list # <<>>
       /\ month_list[Len(month_list)] = StrfYm(current_date)
       /\ \A k \in 1..(Len(month_list) - 1) : month_list[k + 1] = MonthAfter(month_list[k])
  /\ (pc = "loop" /\ idx > Len(month_list)) => requested = month_list


(***************************************************************************)
(* Properties of step 3 (SpecEngine).                                      *)
(***************************************************************************)
BreadthComputed ==
  pc \in {"table", "plot"} /\ Len(market_breadth) = Len(df_close.index)

\* the rows of the trailing 200-row window that ends at row t
Trailing(t) == {r \in 1..t : r > t - window}

\* the rows of that window on which column c holds a value
Observed(w, c, t) == {r \in Trailing(t) : w.val[r][c] # NaN}

\* the window of column c is defined at row t: at least 150 values
Defined(w, c, t) == Cardinality(Observed(w, c, t)) >= min_periods

TouchesHigh(w, c, t) ==
  /\ Defined(w, c, t)
  /\ w.val[t][c] # NaN
  /\ \A r \in Observed(w, c, t) : w.val[t][c] >= w.val[r][c]

TouchesLow(w, c, t) ==
  /\ Defined(w, c, t)
  /\ w.val[t][c] # NaN
  /\ \A r \in Observed(w, c, t) : w.val[t][c] <= w.val[r][c]

\* w is raw with every missing cell replaced by the last value above it
FilledFrom(raw, w) ==
  /\ w.index = raw.index
  /\ w.columns = raw.columns
  /\ \A t \in 1..Len(raw.index) : \A c \in raw.columns :
       IF \A r \in 1..t : raw.val[r][c] = NaN
         THEN w.val[t][c] = NaN
         ELSE \E r \in 1..t :
                /\ raw.val[r][c] # NaN
                /\ w.val[t][c] = raw.val[r][c]
                /\ \A q \in (r + 1)..t : raw.val[q][c] = NaN

\* C8: on every date New_Highs is the number of columns whose forward-filled
\* close is >= every value of its trailing 200 rows (ties count), counted
\* only when at least 150 of those rows hold a value; New_Lows is the same
\* with <=; a column whose window is undefined counts in neither; both
\* counts lie between 0 and the number of columns.
C8_NewHighLowCounts ==
  BreadthComputed =>
    /\ FilledFrom(raw_close, df_close)
    /\ \A t \in 1..Len(df_close.index) :
         /\ market_breadth[t].New_Highs =
              Cardinality({c \in df_close.columns : TouchesHigh(df_close, c, t)})
         /\ market_breadth[t].New_Lows =
              Cardinality({c \in df_close.columns : TouchesLow(df_close, c, t)})
         /\ market_breadth[t].New_Highs \in 0..Cardinality(df_close.columns)
         /\ market_breadth[t].New_Lows \in 0..Cardinality(df_close.columns)
         /\ \A c \in df_close.columns :
              ~Defined(df_close, c, t) => (~is_new_high[t][c] /\ ~is_new_low[t][c])

\* C8 witness: a date with one column at a new high that is not a new low,
\* and another column whose window is undefined
C8_Witness ==
  /\ BreadthComputed
  /\ \E t \in 1..Len(df_close.index) :
       /\ market_breadth[t].New_Highs = 1
       /\ market_breadth[t].New_Lows = 0
       /\ \E c \in df_close.columns : ~Defined(df_close, c, t)
       /\ \E c \in df_close.columns : is_new_high[t][c] /\ df_close.val[t][c] > rolling_min[t][c]

\* column c has a value on row t, and its last k rows up to t hold no
\* observation of their own (they are forward-filled only)
NoNewObservation(raw, w, c, t, k) ==
  /\ t > k
  /\ w.val[t][c] # NaN
  /\ \A r \in (t - k + 1)..t : raw.val[r][c] = NaN

\* a column is counted in both exactly when its window is defined and every
\* value in it equals the close of the date
BothIffConstantWindow ==
  \A t \in 1..Len(df_close.index) : \A c \in df_close.columns :
    (is_new_high[t][c] /\ is_new_low[t][c])
      <=> (/\ Defined(df_close, c, t)
           /\ \A r \in Observed(df_close, c, t) : df_close.val[r][c] = df_close.val[t][c])

\* C10 (as claimed): ... and an instrument with no new observation for 150
\* or more rows is counted as both on every such date.
C10_BothAfterMinPeriodsRows ==
  BreadthComputed =>
    /\ BothIffConstantWindow
    /\ \A t \in 1..Len(df_close.index) : \A c \in df_close.columns :
         NoNewObservation(raw_close, df_close, c, t, min_periods)
           => (is_new_high[t][c] /\ is_new_low[t][c])

\* C10 (amended): an instrument is counted in both New_Highs and New_Lows
\* exactly when its window is defined and every value in it equals the close
\* of the date; an instrument with no new observation for 199 or more rows
\* (its whole 200-row window is filled from one value) is counted as both on
\* every such date.
C10_BothHighAndLow ==
  BreadthComputed =>
    /\ BothIffConstantWindow
    /\ \A t \in 1..Len(df_close.index) : \A c \in df_close.columns :
         NoNewObservation(raw_close, df_close, c, t, window - 1)
           => (is_new_high[t][c] /\ is_new_low[t][c])

\* C10 witness: a date on which New_Highs + New_Lows exceeds the number of
\* columns, with a column filled for 199 rows counted in both
C10_Witness ==
  /\ BreadthComputed
  /\ \E t \in 1..Len(df_close.index) :
       /\ market_breadth[t].New_Highs + market_breadth[t].New_Lows
            > Cardinality(df_close.columns)
       /\ \E c \in df_close.columns :
            /\ NoNewObservation(raw_close, df_close, c, t, window - 1)
            /\ is_new_high[t][c]
            /\ is_new_low[t][c]

(***************************************************************************)
(* Properties of the ratio table (SpecRatio).                              *)
(***************************************************************************)
Abs(x) == IF x < 0 THEN 0 - x ELSE x

\* C9: every row of the trailing 10-row table has Ratio = 999 when New_Lows
\* is 0 (whatever New_Highs is) and otherwise the integer nearest to
\* New_Highs / New_Lows * 100; the ratio is always a finite non-negative
\* integer; 20 / 10 gives 200 and 5 / 0 gives 999.
C9_RatioDerivation ==
  pc = "plot" =>
    /\ Len(table_df) = (IF Len(market_breadth) < TableRows THEN Len(market_breadth) ELSE TableRows)
    /\ \A k \in 1..Len(table_df) :
         LET src == market_breadth[Len(market_breadth) - Len(table_df) + k]
             h   == table_df[k].New_Highs
             l   == table_df[k].New_Lows
             R   == table_df[k].Ratio
         IN /\ h = src.New_Highs
            /\ l = src.New_Lows
            /\ R \in 0..(100 * h + RatioSentinel)
            /\ l = 0 => R = RatioSentinel
            /\ l > 0 => 2 * Abs(R * l - 100 * h) <= l
            /\ (h = 20 /\ l = 10) => R = 200
            /\ (h = 5 /\ l = 0) => R = 999

\* C9 witness: a table with the row 5 / 0 -> 999 and a row with a real ratio
C9_Witness ==
  /\ pc = "plot"
  /\ \E k \in 1..Len(table_df) :
       table_df[k].New_Highs = 5 /\ table_df[k].New_Lows = 0 /\ table_df[k].Ratio = 999
  /\ \E k \in 1..Len(table_df) :
       table_df[k].New_Lows > 0 /\ table_df[k].New_Highs > 0 /\ table_df[k].Ratio > 0

=============================================================================
